---- MODULE Spec2Model ----
(***************************************************************************)
(* Resume screening pipeline of main.py: text extraction, backend          *)
(* selection, the analysis call, fence cleanup and JSON parsing, field     *)
(* defaults, the second-pass summary call, score calculation and the       *)
(* insert into the Resumes table.                                          *)
(***************************************************************************)
EXTENDS Integers, Sequences, FiniteSets, TLC

(***************************************************************************)
(* Python float arithmetic (IEEE-754 binary64, round to nearest even).     *)
(* A float is a sign and a magnitude in fixed point: the integer part i    *)
(* and four 14-bit limbs f[1..4] (most significant first) holding the      *)
(* fraction in units of 2^-56.  The literals 0.7, 0.2 and 0.1 are exact    *)
(* multiples of 2^-56, so every exact product and sum below is too.        *)
(* Valid for magnitudes below 2^24 and integer factors below 2^16.         *)
(***************************************************************************)
Limb == 2^14

Abs(n) == IF n < 0 THEN 0 - n ELSE n

\* the doubles nearest to 0.7, 0.2 and 0.1, as fractions in units of 2^-56
F07 == <<11468, 13107, 3276, 13104>>
F02 == <<3276, 13107, 3276, 13108>>
F01 == <<1638, 6553, 9830, 6554>>

FZero == [neg |-> FALSE, i |-> 0, f |-> <<0, 0, 0, 0>>]

\* exact product of the fraction c (a float below 1) and the natural n
MulExact(c, n) ==
  LET p4 == c[4] * n
      p3 == c[3] * n + (p4 \div Limb)
      p2 == c[2] * n + (p3 \div Limb)
      p1 == c[1] * n + (p2 \div Limb)
  IN  [i |-> p1 \div Limb, f |-> <<p1 % Limb, p2 % Limb, p3 % Limb, p4 % Limb>>]

\* exact sum of two magnitudes
AddMag(a, b) ==
  LET s4 == a.f[4] + b.f[4]
      s3 == a.f[3] + b.f[3] + (s4 \div Limb)
      s2 == a.f[2] + b.f[2] + (s3 \div Limb)
      s1 == a.f[1] + b.f[1] + (s2 \div Limb)
  IN  [i |-> a.i + b.i + (s1 \div Limb),
       f |-> <<s1 % Limb, s2 % Limb, s3 % Limb, s4 % Limb>>]

\* a < b on magnitudes
LessMag(a, b) ==
  \/ a.i < b.i
  \/ a.i = b.i /\ a.f[1] < b.f[1]
  \/ a.i = b.i /\ a.f[1] = b.f[1] /\ a.f[2] < b.f[2]
  \/ a.i = b.i /\ a.f[1] = b.f[1] /\ a.f[2] = b.f[2] /\ a.f[3] < b.f[3]
  \/ a.i = b.i /\ a.f[1] = b.f[1] /\ a.f[2] = b.f[2] /\ a.f[3] = b.f[3]
     /\ a.f[4] < b.f[4]

\* exact difference a - b of two magnitudes, a >= b
SubMag(a, b) ==
  LET d4 == a.f[4] - b.f[4]
      b4 == IF d4 < 0 THEN 1 ELSE 0
      d3 == a.f[3] - b.f[3] - b4
      b3 == IF d3 < 0 THEN 1 ELSE 0
      d2 == a.f[2] - b.f[2] - b3
      b2 == IF d2 < 0 THEN 1 ELSE 0
      d1 == a.f[1] - b.f[1] - b2
      b1 == IF d1 < 0 THEN 1 ELSE 0
  IN  [i |-> a.i - b.i - b1,
       f |-> <<d1 + b1 * Limb, d2 + b2 * Limb, d3 + b3 * Limb, d4 + b4 * Limb>>]

RECURSIVE BitLen(_)
BitLen(n) == IF n = 0 THEN 0 ELSE 1 + BitLen(n \div 2)

\* round a magnitude to 53 significant bits, ties to even
RoundNearestEven(m) ==
  LET \* position of the leading bit: the value lies in [2^k, 2^(k+1))
      k    == IF m.i > 0 THEN BitLen(m.i) - 1 ELSE BitLen(m.f[1]) - 15
      \* unit in the last place, in units of 2^-56: 2^(k-52+56)
      e    == k + 4
      lo   == m.f[3] * Limb + m.f[4]
      ulp  == 2^e
      q    == lo \div ulp
      r    == lo % ulp
      half == ulp \div 2
      up   == r > half \/ (r = half /\ q % 2 = 1)
      lo2  == (IF up THEN q + 1 ELSE q) * ulp
      c3   == lo2 \div (Limb * Limb)
      n3   == (lo2 \div Limb) % Limb
      n4   == lo2 % Limb
      s2   == m.f[2] + c3
      s1   == m.f[1] + (s2 \div Limb)
  IN  IF e <= 0 THEN m
      ELSE [i |-> m.i + (s1 \div Limb),
            f |-> <<s1 % Limb, s2 % Limb, n3, n4>>]

\* n * c for a Python int n and a float literal c below 1: float(n) * c
FMulInt(n, c) ==
  [neg |-> n < 0] @@ RoundNearestEven(MulExact(c, Abs(n)))

\* a + b on floats
FAdd(a, b) ==
  IF a.neg = b.neg
  THEN [neg |-> a.neg] @@ RoundNearestEven(AddMag(a, b))
  ELSE IF LessMag(a, b)
       THEN [neg |-> b.neg] @@ RoundNearestEven(SubMag(b, a))
       ELSE [neg |-> a.neg] @@ RoundNearestEven(SubMag(a, b))

\* int(x): truncation toward zero
FInt(x) == IF x.neg THEN 0 - x.i ELSE x.i

\* x >= n for a positive integer n
FGe(x, n) == ~x.neg /\ x.i >= n

\* the larger of the two in place of the smaller
MinAsMax(a, b) == IF a < b THEN b ELSE a

Min(a, b) == IF a < b THEN a ELSE b

(***************************************************************************)
(* Python str values are sequences of tokens.  A token is one character    *)
(* ("{", "}", ":", ",", the double quote, " ", "\n", "-", a digit) or a    *)
(* run of characters that the code never looks into: "[fence]" for the     *)
(* three backquotes of a markdown fence, the word "json", "null", the      *)
(* field names and words of prose.  "x100" and "x99" stand for words of    *)
(* 100 and of 99 letters.                                                  *)
(***************************************************************************)
Quote == "\""

Whitespace == {" ", "\n"}

Digits == <<"0", "1", "2", "3", "4", "5", "6", "7", "8", "9">>

IsDigit(t) == \E d \in 1..10 : Digits[d] = t

DigitVal(t) == (CHOOSE d \in 1..10 : Digits[d] = t) - 1

\* number of characters a token stands for
TokLen(t) ==
  CASE t = "x100" -> 100
    [] t = "x99" -> 99
    [] t = "Unable to generate summary" -> 26
    [] t = "No text found (Scan/Image?)" -> 27
    [] t = "experience_years" -> 16
    [] t = "skills_match_score" -> 18
    [] t = "education_score" -> 15
    [] t \in {"summary", "Unknown"} -> 7
    [] t \in {"Error:", "resume"} -> 6
    [] t = "email" -> 5
    [] t \in {"name", "json", "null", "Jane", "Sure", "Done"} -> 4
    [] t \in {"[fence]", "N/A"} -> 3
    [] OTHER -> 1

RECURSIVE StrLen(_)
StrLen(s) == IF s = <<>> THEN 0 ELSE TokLen(Head(s)) + StrLen(Tail(s))

\* s[from:] as a sequence
From(s, from) == SubSeq(s, from, Len(s))

\* index of the first occurrence of pat in s, 0 when there is none
Find(s, pat) ==
  LET hits == {i \in 1..(Len(s) - Len(pat) + 1) : SubSeq(s, i, i + Len(pat) - 1) = pat}
  IN  IF hits = {} THEN 0 ELSE CHOOSE i \in hits : \A j \in hits : i <= j

\* pat in s
Contains(s, pat) == Find(s, pat) # 0

\* s.split(pat)[n], for n below the number of pieces
RECURSIVE SplitPiece(_, _, _)
SplitPiece(s, pat, n) ==
  LET i == Find(s, pat)
  IN  IF n = 0
      THEN IF i = 0 THEN s ELSE SubSeq(s, 1, i - 1)
      ELSE SplitPiece(From(s, i + Len(pat)), pat, n - 1)

\* s.strip()
RECURSIVE LStrip(_)
LStrip(s) == IF s # <<>> /\ Head(s) \in Whitespace THEN LStrip(Tail(s)) ELSE s

RECURSIVE RStrip(_)
RStrip(s) ==
  IF s # <<>> /\ s[Len(s)] \in Whitespace THEN RStrip(SubSeq(s, 1, Len(s) - 1)) ELSE s

Strip(s) == RStrip(LStrip(s))

\* s.startswith(pat)
StartsWith(s, pat) == Len(s) >= Len(pat) /\ SubSeq(s, 1, Len(pat)) = pat

(***************************************************************************)
(* Python values produced by json.loads: dict, str, int and None.          *)
(***************************************************************************)
VNone == [k |-> "null", n |-> 0, s |-> <<>>, o |-> <<>>]

VStr(s) == [k |-> "str", n |-> 0, s |-> s, o |-> <<>>]

VInt(n) == [k |-> "int", n |-> n, s |-> <<>>, o |-> <<>>]

VDict(o) == [k |-> "dict", n |-> 0, s |-> <<>>, o |-> o]

EmptyDict == VDict(<<>>)

(***************************************************************************)
(* json.loads: whitespace, objects with string keys, strings, integers     *)
(* and null.  A result is [ok, v, p]: success, the value, the position     *)
(* after it.                                                               *)
(***************************************************************************)
NoParse == [ok |-> FALSE, v |-> VNone, p |-> 0]

At(s, p) == IF p >= 1 /\ p <= Len(s) THEN s[p] ELSE "<end>"

RECURSIVE SkipWs(_, _)
SkipWs(s, p) == IF At(s, p) \in Whitespace THEN SkipWs(s, p + 1) ELSE p

\* index of the quote closing the string whose body starts at p, 0 if none
RECURSIVE CloseQuote(_, _)
CloseQuote(s, p) ==
  IF p > Len(s) \/ s[p] = "\n" THEN 0
  ELSE IF s[p] = Quote THEN p ELSE CloseQuote(s, p + 1)

ParseString(s, p) ==
  LET q == CloseQuote(s, p + 1)
  IN  IF q = 0 THEN NoParse
      ELSE [ok |-> TRUE, v |-> VStr(SubSeq(s, p + 1, q - 1)), p |-> q + 1]

\* digits from p on: [n, p] the value read so far and the position after
RECURSIVE ReadDigits(_, _, _)
ReadDigits(s, p, acc) ==
  IF IsDigit(At(s, p)) THEN ReadDigits(s, p + 1, 10 * acc + DigitVal(s[p]))
  ELSE [n |-> acc, p |-> p]

\* -?(0|[1-9][0-9]*)
ParseInt(s, p) ==
  LET neg == At(s, p) = "-"
      d   == IF neg THEN p + 1 ELSE p
      r   == IF At(s, d) = "0" THEN [n |-> 0, p |-> d + 1] ELSE ReadDigits(s, d, 0)
  IN  IF ~IsDigit(At(s, d)) THEN NoParse
      ELSE [ok |-> TRUE, v |-> VInt(IF neg THEN 0 - r.n ELSE r.n), p |-> r.p]

RECURSIVE ParseValue(_, _)
RECURSIVE ParseMembers(_, _, _)

ParseObject(s, p) ==
  LET p1 == SkipWs(s, p + 1)
  IN  IF At(s, p1) = "}" THEN [ok |-> TRUE, v |-> EmptyDict, p |-> p1 + 1]
      ELSE ParseMembers(s, p1, <<>>)

\* "key" : value , ... } with the members read so far in acc (last one wins)
ParseMembers(s, p, acc) ==
  IF At(s, p) # Quote THEN NoParse
  ELSE LET key == ParseString(s, p)
           p2  == SkipWs(s, key.p)
           val == ParseValue(s, SkipWs(s, p2 + 1))
           p4  == SkipWs(s, val.p)
           new == (key.v.s :> val.v) @@ acc
       IN  IF ~key.ok \/ At(s, p2) # ":" THEN NoParse
           ELSE IF ~val.ok THEN NoParse
           ELSE IF At(s, p4) = "}" THEN [ok |-> TRUE, v |-> VDict(new), p |-> p4 + 1]
           ELSE IF At(s, p4) = "," THEN ParseMembers(s, SkipWs(s, p4 + 1), new)
           ELSE NoParse

ParseValue(s, p) ==
  CASE At(s, p) = "{" -> ParseObject(s, p)
    [] At(s, p) = Quote -> ParseString(s, p)
    [] At(s, p) = "null" -> [ok |-> TRUE, v |-> VNone, p |-> p + 1]
    [] At(s, p) = "-" \/ IsDigit(At(s, p)) -> ParseInt(s, p)
    [] OTHER -> NoParse

\* json.loads(s): [ok |-> FALSE] stands for json.JSONDecodeError
JsonLoads(s) ==
  LET r == ParseValue(s, SkipWs(s, 1))
  IN  IF r.ok /\ SkipWs(s, r.p) = Len(s) + 1 THEN [ok |-> TRUE, v |-> r.v]
      ELSE [ok |-> FALSE, v |-> VNone]

\* re.search of the greedy brace pattern with re.DOTALL: [found, group]
RegexSearch(s) ==
  LET a  == Find(s, <<"{">>)
      bs == {i \in 1..Len(s) : s[i] = "}"}
      b  == IF bs = {} THEN 0 ELSE CHOOSE i \in bs : \A j \in bs : i >= j
  IN  IF a # 0 /\ b > a THEN [found |-> TRUE, group |-> SubSeq(s, a, b)]
      ELSE [found |-> FALSE, group |-> <<>>]

Fence == <<"[fence]">>

FenceJson == <<"[fence]", "json">>

\* cleanup of markdown code blocks
FenceCleanup(content) ==
  IF Contains(content, FenceJson)
  THEN Strip(SplitPiece(SplitPiece(content, FenceJson, 1), Fence, 0))
  ELSE IF Contains(content, Fence)
       THEN Strip(SplitPiece(content, Fence, 0))
       ELSE content

\* the JSON parse with its regex fallback, applied to the cleaned content
ParseJson(content) ==
  LET direct == JsonLoads(content)
      match  == RegexSearch(content)
      second == JsonLoads(match.group)
  IN  IF direct.ok THEN direct.v
      ELSE IF match.found
           THEN IF second.ok THEN second.v ELSE EmptyDict
           ELSE EmptyDict

(***************************************************************************)
(* The field defaults, the second-pass test and the score calculation.     *)
(***************************************************************************)
Key(w) == <<w>>

HasKey(d, w) == Key(w) \in DOMAIN d.o

Get(d, w) == d.o[Key(w)]

Placeholder == VStr(<<"Unable to generate summary">>)

\* dict.setdefault(key, default)
SetDefault(d, w, default) ==
  IF HasKey(d, w) THEN d ELSE VDict((Key(w) :> default) @@ d.o)

\* the defaults with a skills_match_score of 0 in place of 50
EnsureDefaultsZeroSkills(d) ==
  SetDefault(
    SetDefault(
      SetDefault(
        SetDefault(
          SetDefault(
            SetDefault(d, "name", VStr(<<"Unknown">>)),
            "email", VStr(<<"N/A">>)),
          "experience_years", VInt(0)),
        "skills_match_score", VInt(0)),
      "education_score", VInt(50)),
    "summary", Placeholder)

\* the six setdefault calls on a dict
EnsureDefaults(d) ==
  SetDefault(
    SetDefault(
      SetDefault(
        SetDefault(
          SetDefault(
            SetDefault(d, "name", VStr(<<"Unknown">>)),
            "email", VStr(<<"N/A">>)),
          "experience_years", VInt(0)),
        "skills_match_score", VInt(50)),
      "education_score", VInt(50)),
    "summary", Placeholder)

\* len(v) is defined for str and dict, a TypeError for int and None
HasLen(v) == v.k \in {"str", "dict"}

PyLen(v) == IF v.k = "str" THEN StrLen(v.s) ELSE Cardinality(DOMAIN v.o)

MinSummaryLen == 100

\* the condition of the second pass with <= in place of <
Pass2TestInclusive(d) ==
  IF Get(d, "summary") = Placeholder THEN "yes"
  ELSE IF ~HasLen(Get(d, "summary")) THEN "raise"
  ELSE IF PyLen(Get(d, "summary")) <= MinSummaryLen THEN "yes" ELSE "no"

\* the condition of the second pass: "raise" when evaluating it raises
Pass2Test(d) ==
  IF Get(d, "summary") = Placeholder THEN "yes"
  ELSE IF ~HasLen(Get(d, "summary")) THEN "raise"
  ELSE IF PyLen(Get(d, "summary")) < MinSummaryLen THEN "yes" ELSE "no"

ShortlistThreshold == 70

ExperienceCap == 100

\* the weighted score with data.get(key, 0) in place of data[key]
CalculateScoreGetZero(d) ==
  LET get(w) == IF HasKey(d, w) THEN Get(d, w) ELSE VInt(0)
  IN  IF get("skills_match_score").k # "int" THEN [exc |-> "TypeError", w |-> FZero]
      ELSE IF get("experience_years").k # "int" THEN [exc |-> "TypeError", w |-> FZero]
      ELSE IF get("education_score").k # "int" THEN [exc |-> "TypeError", w |-> FZero]
      ELSE [exc |-> "none",
            w |-> FAdd(FAdd(FMulInt(get("skills_match_score").n, F07),
                            FMulInt(Min(get("experience_years").n * 10,
                                        ExperienceCap), F02)),
                       FMulInt(get("education_score").n, F01))]

\* the weighted score expression, evaluated left to right:
\* [exc, w] with exc the exception raised, "none" if there is none
CalculateScore(d) ==
  IF ~HasKey(d, "skills_match_score") THEN [exc |-> "KeyError", w |-> FZero]
  ELSE IF Get(d, "skills_match_score").k # "int" THEN [exc |-> "TypeError", w |-> FZero]
  ELSE IF ~HasKey(d, "experience_years") THEN [exc |-> "KeyError", w |-> FZero]
  ELSE IF Get(d, "experience_years").k # "int" THEN [exc |-> "TypeError", w |-> FZero]
  ELSE IF ~HasKey(d, "education_score") THEN [exc |-> "KeyError", w |-> FZero]
  ELSE IF Get(d, "education_score").k # "int" THEN [exc |-> "TypeError", w |-> FZero]
  ELSE [exc |-> "none",
        w |-> FAdd(FAdd(FMulInt(Get(d, "skills_match_score").n, F07),
                        FMulInt(Min(Get(d, "experience_years").n * 10, ExperienceCap), F02)),
                   FMulInt(Get(d, "education_score").n, F01))]

\* the status with > in place of >=
StatusOfStrict(w) ==
  IF FGe(w, ShortlistThreshold) /\ ~(w.i = ShortlistThreshold /\ w.f = <<0, 0, 0, 0>>)
  THEN "Shortlisted" ELSE "Rejected"

StatusOf(w) == IF FGe(w, ShortlistThreshold) THEN "Shortlisted" ELSE "Rejected"

\* sqlite3 binds str, int and None; a dict parameter is an error
Bindable(v) == v.k \in {"str", "int", "null"}

(***************************************************************************)
(* extract_text_from_pdf on the text of the pages of a document.           *)
(***************************************************************************)
\* re.sub(r'\s+', ' ', text): every run of whitespace becomes one space
RECURSIVE CollapseWs(_)
CollapseWs(s) ==
  IF s = <<>> THEN <<>>
  ELSE IF Head(s) \in Whitespace
       THEN <<" ">> \o CollapseWs(LStrip(s))
       ELSE <<Head(s)>> \o CollapseWs(Tail(s))

NoTextError == <<"Error:", " ", "No text found (Scan/Image?)">>

\* the extraction without the error value for an empty text
ExtractTextNoSentinel(pages) == Strip(CollapseWs(pages))

ExtractTextFromPdf(pages) ==
  LET t == Strip(CollapseWs(pages))
  IN  IF t # <<>> THEN t ELSE NoTextError

(***************************************************************************)
(* Inputs: the documents of a run, the credential sources, and the text    *)
(* the backends may reply.                                                 *)
(***************************************************************************)
MaxFiles == 2

\* page text of an uploaded PDF: a scan without text, a resume, and a
\* resume whose text begins with the word "Error:"
PageTexts ==
  { <<"\n", " ">>,
    <<" ", "Jane", "\n", " ", "resume", "\n">>,
    <<"Error:", " ", "\n", "resume">> }

\* os.getenv("GROQ_API_KEY"): "None" when the variable is not set
EnvValues == {"None", "envkey"}

\* st.secrets: no secrets file, a file without the key, an empty value,
\* a value
SecretsValues == {"FileNotFoundError", "None", "", "seckey"}

JStr(w) == <<Quote, w, Quote>>

Member(k, v) == JStr(k) \o <<":">> \o v

RECURSIVE Join(_)
Join(ms) ==
  IF ms = <<>> THEN <<>>
  ELSE IF Len(ms) = 1 THEN ms[1]
  ELSE ms[1] \o <<",", " ">> \o Join(Tail(ms))

Obj(ms) == <<"{">> \o Join(ms) \o <<"}">>

\* a reply with all six fields
FullReply(skills, years, education, summary) ==
  Obj(<< Member("name", JStr("Jane")),
         Member("email", JStr("N/A")),
         Member("experience_years", years),
         Member("skills_match_score", skills),
         Member("education_score", education),
         Member("summary", JStr(summary)) >>)

JsonFenced(pre, body, post) ==
  pre \o <<"[fence]", "json", "\n">> \o body \o <<"\n", "[fence]">> \o post

\* what the analysis call may return
AnalysisReplies ==
  { FullReply(<<"9", "0">>, <<"3">>, <<"8", "0">>, "x100"),
    FullReply(<<"1", "0", "0">>, <<"0">>, <<"0">>, "x100"),
    FullReply(<<"7", "1">>, <<"1", "0">>, <<"3">>, "x100"),
    FullReply(<<"2", "0", "0">>, <<"3">>, <<"8", "0">>, "x99"),
    FullReply(<<"-", "5", "0">>, <<"0">>, <<"0">>, "x100"),
    <<"Sure">>,
    <<"5">>,
    JsonFenced(<<"Sure", " ">>, Obj(<<Member("name", JStr("Jane"))>>), <<>>),
    Obj(<<Member("summary", <<"null">>)>>),
    Obj(<<Member("skills_match_score", JStr("Jane"))>>) }

\* what the second-pass call may return
SummaryReplies == { <<>>, <<" ", "\n">>, <<"\n", "x100", " ">> }

(***************************************************************************)
(* The screening run: the loop over uploaded_files, with analyze_resume    *)
(* inlined step by step.                                                   *)
(***************************************************************************)
VARIABLES os_environ, st_secrets, selected_job_id, uploaded_files, i, pc,
          text, api_key, client, response, content, data, summary_response,
          weighted_score, status, Resumes, has_error, screening_complete,
          llm_calls, processed, raised, creating_new_job, Jobs, new_job_id,
          new_job_title, new_job_desc, is_duplicate, st_message

vars == <<os_environ, st_secrets, selected_job_id, uploaded_files, i, pc,
          text, api_key, client, response, content, data, summary_response,
          weighted_score, status, Resumes, has_error, screening_complete,
          llm_calls, processed, raised, creating_new_job, Jobs, new_job_id,
          new_job_title, new_job_desc, is_duplicate, st_message>>

NoException == [exc |-> "", in |-> ""]

\* the job panel: the form of a job being created and the Jobs table
job_panel ==
  <<creating_new_job, Jobs, new_job_id, new_job_title, new_job_desc,
    is_duplicate, st_message>>

config ==
  <<os_environ, st_secrets, selected_job_id, uploaded_files, job_panel>>

\* the job panel when Start Screening is clicked: the selected job is shown
JobShown ==
  /\ creating_new_job = FALSE
  /\ Jobs = {[job_id |-> selected_job_id, job_title |-> "Engineer",
              job_description |-> "d1"]}
  /\ new_job_id = ""
  /\ new_job_title = ""
  /\ new_job_desc = ""
  /\ is_duplicate = FALSE
  /\ st_message = ""

\* the locals of one iteration, before the iteration assigns them
ClearLocals ==
  /\ text' = <<>>
  /\ api_key' = "None"
  /\ client' = "None"
  /\ response' = <<>>
  /\ content' = <<>>
  /\ data' = VNone
  /\ summary_response' = <<>>
  /\ weighted_score' = FZero
  /\ status' = ""
  /\ llm_calls' = <<>>

Init ==
  /\ os_environ \in EnvValues
  /\ st_secrets \in SecretsValues
  /\ selected_job_id = "SE-101"
  /\ JobShown
  /\ uploaded_files \in UNION {[1..n -> PageTexts] : n \in 1..MaxFiles}
  /\ i = 1
  /\ pc = "extract"
  /\ text = <<>>
  /\ api_key = "None"
  /\ client = "None"
  /\ response = <<>>
  /\ content = <<>>
  /\ data = VNone
  /\ summary_response = <<>>
  /\ weighted_score = FZero
  /\ status = ""
  /\ Resumes = <<>>
  /\ has_error = FALSE
  /\ screening_complete = FALSE
  /\ llm_calls = <<>>
  /\ processed = <<>>
  /\ raised = NoException

\* a break in place of the next iteration
NextFileBreak ==
  /\ i' = i + 1
  /\ pc' = "finish"

\* the next iteration of the for loop, or the code after the loop
NextFile ==
  /\ i' = i + 1
  /\ pc' = IF i + 1 > Len(uploaded_files) THEN "finish" ELSE "extract"

\* text = extract_text_from_pdf(file.read())
ExtractText ==
  /\ pc = "extract"
  /\ text' = ExtractTextFromPdf(uploaded_files[i])
  /\ pc' = "check"
  /\ UNCHANGED <<config, summary_response, i, api_key, client, response, content, data,
                 weighted_score, status, Resumes, has_error,
                 screening_complete, llm_calls, processed, raised>>

\* if text.startswith("Error:"): st.error(...); continue
SkipFile ==
  /\ pc = "check"
  /\ StartsWith(text, <<"Error:">>)
  /\ processed' = Append(processed, "skipped")
  /\ NextFile
  /\ ClearLocals
  /\ UNCHANGED <<config, Resumes, has_error, screening_complete, raised>>

\* data = analyze_resume(text, job_desc) is entered
EnterAnalyze ==
  /\ pc = "check"
  /\ ~StartsWith(text, <<"Error:">>)
  /\ pc' = "setup"
  /\ UNCHANGED <<config, summary_response, i, text, api_key, client, response, content, data,
                 weighted_score, status, Resumes, has_error,
                 screening_complete, llm_calls, processed, raised>>

\* the key after the lookups in os.environ and st.secrets
ResolveApiKey(env, secrets) ==
  IF secrets \in {"FileNotFoundError", "None"} THEN env ELSE secrets

\* not api_key
NoKey(k) == k \in {"None", ""}

\* API client setup
ApiClientSetup ==
  /\ pc = "setup"
  /\ api_key' = ResolveApiKey(os_environ, st_secrets)
  /\ client' = IF NoKey(api_key') THEN "None" ELSE "Groq"
  /\ pc' = "analyze"
  /\ UNCHANGED <<config, summary_response, i, text, response, content, data, weighted_score, status,
                 Resumes, has_error, screening_complete, llm_calls,
                 processed, raised>>

\* the parameters of the analysis request on a backend
AnalysisRequest(c) ==
  IF c # "None"
  THEN [purpose |-> "analysis", backend |-> "groq", temperature10 |-> 2,
        max_tokens |-> 1024]
  ELSE [purpose |-> "analysis", backend |-> "ollama", temperature10 |-> 2,
        max_tokens |-> 512]

\* the parameters of the summary request on a backend
SummaryRequest(c) ==
  IF c # "None"
  THEN [purpose |-> "summary", backend |-> "groq", temperature10 |-> 4,
        max_tokens |-> 512]
  ELSE [purpose |-> "summary", backend |-> "ollama", temperature10 |-> 4,
        max_tokens |-> 512]

\* a call that is issued a second time when it fails
IssueWithRetry(request, ok) ==
  IF ok THEN Append(llm_calls, request @@ [ok |-> TRUE])
  ELSE Append(Append(llm_calls, request @@ [ok |-> FALSE]), request @@ [ok |-> FALSE])

\* a call on a backend, recorded with its outcome
Issue(request, ok) == Append(llm_calls, request @@ [ok |-> ok])

\* the analysis call: it raises, or it returns a reply
AnalysisCall ==
  /\ pc = "analyze"
  /\ \/ /\ llm_calls' = Issue(AnalysisRequest(client), FALSE)
        /\ content' = <<"{", "}">>
        /\ UNCHANGED response
     \/ \E reply \in AnalysisReplies :
        /\ llm_calls' = Issue(AnalysisRequest(client), TRUE)
        /\ response' = reply
        /\ content' = reply
  /\ pc' = "parse"
  /\ UNCHANGED <<config, summary_response, i, text, api_key, client, data, weighted_score,
                 status, Resumes, has_error, screening_complete, processed,
                 raised>>

\* cleanup of code fences, json.loads and the regex fallback
ParseContent ==
  /\ pc = "parse"
  /\ content' = FenceCleanup(content)
  /\ data' = ParseJson(content')
  /\ pc' = "defaults"
  /\ UNCHANGED <<config, summary_response, i, text, api_key, client, response,
                 weighted_score, status, Resumes, has_error,
                 screening_complete, llm_calls, processed, raised>>

\* an exception that nothing catches ends the run; where it was raised
Raise(exc, where) ==
  /\ raised' = [exc |-> exc, in |-> where]
  /\ pc' = "crashed"

\* data.setdefault(...): an AttributeError unless data is a dict
Defaults ==
  /\ pc = "defaults"
  /\ IF data.k = "dict"
     THEN /\ data' = EnsureDefaults(data)
          /\ pc' = "pass2"
          /\ UNCHANGED raised
     ELSE /\ Raise("AttributeError", "analyze_resume")
          /\ UNCHANGED data
  /\ UNCHANGED <<config, summary_response, i, text, api_key, client, response,
                 content, weighted_score,
                 status, Resumes, has_error, screening_complete, llm_calls,
                 processed>>

\* the reply replaces the summary without the test that it is not empty
WithSummaryUnchecked(d, reply) ==
  VDict((Key("summary") :> VStr(Strip(reply))) @@ d.o)

\* new_summary.strip() replaces the summary when it is not empty
WithSummary(d, reply) ==
  IF Strip(reply) # <<>>
  THEN VDict((Key("summary") :> VStr(Strip(reply))) @@ d.o)
  ELSE d

\* PASS 2 and the return of analyze_resume
Pass2 ==
  /\ pc = "pass2"
  /\ \/ /\ Pass2Test(data) = "raise"
        /\ Raise("TypeError", "analyze_resume")
        /\ UNCHANGED <<data, summary_response, llm_calls>>
     \/ /\ Pass2Test(data) = "no"
        /\ pc' = "score"
        /\ UNCHANGED <<data, summary_response, llm_calls, raised>>
     \/ /\ Pass2Test(data) = "yes"
        /\ pc' = "score"
        /\ UNCHANGED raised
        /\ \/ /\ llm_calls' = Issue(SummaryRequest(client), FALSE)
              /\ UNCHANGED <<data, summary_response>>
           \/ \E reply \in SummaryReplies :
              /\ llm_calls' = Issue(SummaryRequest(client), TRUE)
              /\ summary_response' = reply
              /\ data' = WithSummary(data, summary_response')
  /\ UNCHANGED <<config, i, text, api_key, client, response, content, weighted_score,
                 status, Resumes, has_error, screening_complete, processed>>

\* the score and the status; only a KeyError is caught
Score ==
  /\ pc = "score"
  /\ LET r == CalculateScore(data)
     IN  IF r.exc = "TypeError"
         THEN /\ Raise("TypeError", "screening loop")
              /\ UNCHANGED <<weighted_score, status>>
         ELSE /\ weighted_score' = r.w
              /\ status' = StatusOf(r.w)
              /\ pc' = "save"
              /\ UNCHANGED raised
  /\ UNCHANGED <<config, summary_response, i, text, api_key, client, response,
                 content, data, Resumes,
                 has_error, screening_complete, llm_calls, processed>>

\* the row of the INSERT statement
Row ==
  [job_id |-> selected_job_id, name |-> Get(data, "name"),
   score |-> FInt(weighted_score), summary |-> Get(data, "summary"),
   status |-> status]

\* save to database: the insert commits, or its exception is reported
Save ==
  /\ pc = "save"
  /\ \/ /\ Bindable(Row.name) /\ Bindable(Row.summary)
        /\ Resumes' = Append(Resumes, Row)
        /\ processed' = Append(processed, "inserted")
        /\ UNCHANGED has_error
     \/ /\ has_error' = TRUE
        /\ processed' = Append(processed, "db_error")
        /\ UNCHANGED Resumes
  /\ NextFile
  /\ ClearLocals
  /\ UNCHANGED <<config, screening_complete, raised>>

\* after the loop
Finish ==
  /\ pc = "finish"
  /\ screening_complete' = (IF has_error THEN screening_complete ELSE TRUE)
  /\ pc' = "done"
  /\ UNCHANGED <<config, summary_response, i, text, api_key, client, response, content, data,
                 weighted_score, status, Resumes, has_error, llm_calls,
                 processed, raised>>

Next ==
  \/ ExtractText
  \/ SkipFile
  \/ EnterAnalyze
  \/ ApiClientSetup
  \/ AnalysisCall
  \/ ParseContent
  \/ Defaults
  \/ Pass2
  \/ Score
  \/ Save
  \/ Finish

Spec == Init /\ [][Next]_vars

(***************************************************************************)
(* The parser on its own: the cleanup and the parse applied to a reply.    *)
(***************************************************************************)
PlainFenced(pre, body, post) ==
  pre \o <<"[fence]", "\n">> \o body \o <<"\n", "[fence]">> \o post

\* texts of JSON objects: plain ones, and ones whose strings hold a fence
\* or a brace
JsonObjects ==
  { Obj(<<Member("name", JStr("Jane"))>>),
    FullReply(<<"9", "0">>, <<"3">>, <<"8", "0">>, "x100"),
    Obj(<<>>),
    Obj(<<Member("email", Obj(<<Member("name", JStr("Jane"))>>))>>),
    Obj(<<Member("name", JStr("}"))>>),
    Obj(<<Member("summary", JStr("[fence]"))>>),
    Obj(<<Member("name", <<Quote, "[fence]", "json", Quote>>),
          Member("email", Obj(<<Member("name", JStr("Jane"))>>)),
          Member("summary", JStr("[fence]"))>>) }

ProseBefore == { <<>>, <<"Sure", " ">>, <<"Sure", " ", "{", "Done", "}", "\n">> }

TrailingProse ==
  { <<" ", "Done">>, <<" ", "Done", " ", "{", "Sure", "}">>, <<"\n", "{">> }

ProseAfter == TrailingProse \cup { <<>> }

\* a fenced block of prose with the JSON object after it, or before it
OutsideBlock ==
  { JsonFenced(<<>>, <<"Sure">>, <<" ">> \o J) : J \in JsonObjects }
  \cup { J \o <<"\n">> \o JsonFenced(<<>>, <<"Sure">>, <<>>) : J \in JsonObjects }

ParseInputs ==
  JsonObjects
  \cup { JsonFenced(pre, J, post) :
           pre \in ProseBefore, J \in JsonObjects, post \in ProseAfter }
  \cup { PlainFenced(pre, J, post) :
           pre \in ProseBefore, J \in JsonObjects, post \in ProseAfter }
  \cup { J \o t : J \in JsonObjects, t \in TrailingProse }
  \cup OutsideBlock

\* analyze_resume on the local backend, at the return of the analysis call
InitParse ==
  /\ os_environ = "None"
  /\ st_secrets = "None"
  /\ selected_job_id = "SE-101"
  /\ JobShown
  /\ uploaded_files = << <<"Jane", " ", "resume">> >>
  /\ i = 1
  /\ pc = "parse"
  /\ text = ExtractTextFromPdf(uploaded_files[1])
  /\ api_key = "None"
  /\ client = "None"
  /\ response \in ParseInputs
  /\ content = response
  /\ data = VNone
  /\ summary_response = <<>>
  /\ weighted_score = FZero
  /\ status = ""
  /\ Resumes = <<>>
  /\ has_error = FALSE
  /\ screening_complete = FALSE
  /\ llm_calls = << AnalysisRequest("None") @@ [ok |-> TRUE] >>
  /\ processed = <<>>
  /\ raised = NoException

NextParse == ParseContent

SpecParse == InitParse /\ [][NextParse]_vars

(***************************************************************************)
(* The score calculation on its own: the lines after analyze_resume has    *)
(* returned, applied to the record of a reply with integer sub-scores.     *)
(***************************************************************************)
SkillsScores == {-50, 0, 1, 50, 69, 71, 90, 99, 100, 200}

ExperienceYears == {0, 1, 3, 9, 10, 11, 15}

EducationScores == {-50, 0, 3, 50, 80, 99, 100, 200}

ScoreKeys == {"skills_match_score", "experience_years", "education_score"}

\* the decimal text of an int, as the reply holds it
RECURSIVE IntText(_)
IntText(n) ==
  IF n < 0 THEN <<"-">> \o IntText(0 - n)
  ELSE IF n < 10 THEN <<Digits[n + 1]>>
  ELSE IntText(n \div 10) \o <<Digits[(n % 10) + 1]>>

\* a record that has lost the keys ws
Without(d, ws) ==
  VDict([k \in DOMAIN d.o \ {Key(w) : w \in ws} |-> d.o[k]])

\* the loop at line 951, analyze_resume having returned the record of a
\* reply; absent is empty for every record analyze_resume returns, the
\* other values give the records that the except KeyError branch is for
InitScore ==
  /\ os_environ = "None"
  /\ st_secrets = "None"
  /\ selected_job_id = "SE-101"
  /\ JobShown
  /\ uploaded_files = << <<"Jane", " ", "resume">> >>
  /\ i = 1
  /\ pc = "score"
  /\ text = ExtractTextFromPdf(uploaded_files[1])
  /\ api_key = "None"
  /\ client = "None"
  /\ \E skills \in SkillsScores, years \in ExperienceYears,
        education \in EducationScores, absent \in SUBSET ScoreKeys :
       /\ response = FullReply(IntText(skills), IntText(years),
                               IntText(education), "x100")
       /\ content = FenceCleanup(response)
       /\ data = Without(EnsureDefaults(ParseJson(content)), absent)
  /\ summary_response = <<>>
  /\ weighted_score = FZero
  /\ status = ""
  /\ Resumes = <<>>
  /\ has_error = FALSE
  /\ screening_complete = FALSE
  /\ llm_calls = << AnalysisRequest("None") @@ [ok |-> TRUE] >>
  /\ processed = <<>>
  /\ raised = NoException

NextScore == Score \/ Save

SpecScore == InitScore /\ [][NextScore]_vars

(***************************************************************************)
(* The job panel: one session of the page and the Jobs table it shares     *)
(* with other sessions.  A click runs the script from the top; st.rerun()  *)
(* ends the run and runs the script once more without a click.  None is    *)
(* written "None", which is no job id.                                     *)
(***************************************************************************)
JobIds == {"SE-101", "SE-102", "SE-103"}

JobTitles == {"Engineer"}

JobDescriptions == {"d1", "d2"}

JobRow(id, title, desc) ==
  [job_id |-> id, job_title |-> title, job_description |-> desc]

JobIdsOf(T) == {r.job_id : r \in T}

\* the panel of the selected job: a job that is not in the table is
\* reported and the selection is dropped
ShowSelectedJob(creating, selected, T) ==
  IF ~creating /\ selected # "None" /\ selected \notin JobIdsOf(T)
  THEN [selected_job_id |-> "None", st_message |-> "Job not found!"]
  ELSE [selected_job_id |-> selected, st_message |-> ""]

\* the widgets of the form are read anew at the next click
ClearForm ==
  /\ new_job_id' = ""
  /\ new_job_title' = ""
  /\ new_job_desc' = ""
  /\ is_duplicate' = FALSE

\* a fresh session on a fresh database
InitUI ==
  /\ os_environ = "None"
  /\ st_secrets = "None"
  /\ selected_job_id = "None"
  /\ creating_new_job = FALSE
  /\ screening_complete = FALSE
  /\ Jobs = {}
  /\ new_job_id = ""
  /\ new_job_title = ""
  /\ new_job_desc = ""
  /\ is_duplicate = FALSE
  /\ st_message = ""
  /\ uploaded_files = <<>>
  /\ i = 1
  /\ pc = "ui"
  /\ text = <<>>
  /\ api_key = "None"
  /\ client = "None"
  /\ response = <<>>
  /\ content = <<>>
  /\ data = VNone
  /\ summary_response = <<>>
  /\ weighted_score = FZero
  /\ status = ""
  /\ Resumes = <<>>
  /\ has_error = FALSE
  /\ llm_calls = <<>>
  /\ processed = <<>>
  /\ raised = NoException

\* what no action of the job panel touches
screening ==
  <<os_environ, st_secrets, uploaded_files, i, text, api_key, client,
    response, content, data, summary_response, weighted_score, status,
    Resumes, has_error, screening_complete, llm_calls, processed, raised>>

\* New Job with the selection left as it is
NewJobKeepsSelection ==
  /\ pc = "ui"
  /\ creating_new_job' = TRUE
  /\ st_message' = ""
  /\ UNCHANGED <<selected_job_id, pc, Jobs, new_job_id, new_job_title,
                 new_job_desc, is_duplicate, screening>>

\* the New Job button; the run goes on and shows the form
NewJob ==
  /\ pc = "ui"
  /\ creating_new_job' = TRUE
  /\ selected_job_id' = "None"
  /\ st_message' = ""
  /\ UNCHANGED <<pc, Jobs, new_job_id, new_job_title, new_job_desc,
                 is_duplicate, screening>>

\* the button of a job of the list, then the rerun
SelectJob ==
  /\ pc = "ui"
  /\ \E job \in Jobs :
       LET shown == ShowSelectedJob(FALSE, job.job_id, Jobs)
       IN  /\ creating_new_job' = FALSE
           /\ selected_job_id' = shown.selected_job_id
           /\ st_message' = shown.st_message
  /\ UNCHANGED <<pc, Jobs, new_job_id, new_job_title, new_job_desc,
                 is_duplicate, screening>>

\* Save Job is clicked: the run reads the form and looks the id up
SaveJobClicked ==
  /\ pc = "ui"
  /\ creating_new_job
  /\ new_job_id' \in JobIds \cup {""}
  /\ new_job_title' \in JobTitles \cup {""}
  /\ new_job_desc' \in JobDescriptions \cup {""}
  /\ is_duplicate' = (new_job_id' # "" /\ new_job_id' \in JobIdsOf(Jobs))
  /\ st_message' = (IF is_duplicate' THEN "already exists!" ELSE "")
  /\ pc' = "save_job"
  /\ UNCHANGED <<selected_job_id, creating_new_job, Jobs, screening>>

\* the body of the Save Job button: the INSERT, or one of the messages
SaveJob ==
  /\ pc = "save_job"
  /\ pc' = "ui"
  /\ ClearForm
  /\ IF new_job_id = "" \/ new_job_title = "" \/ new_job_desc = ""
     THEN /\ st_message' = "Please fill in all fields."
          /\ UNCHANGED <<selected_job_id, creating_new_job, Jobs>>
     ELSE IF is_duplicate
     THEN UNCHANGED <<selected_job_id, creating_new_job, Jobs, st_message>>
     ELSE IF new_job_id \in JobIdsOf(Jobs)
     THEN \* sqlite3.IntegrityError: the primary key is taken
          /\ st_message' = "already exists."
          /\ UNCHANGED <<selected_job_id, creating_new_job, Jobs>>
     ELSE /\ Jobs' = Jobs \cup {JobRow(new_job_id, new_job_title, new_job_desc)}
          /\ creating_new_job' = FALSE
          /\ selected_job_id' =
               ShowSelectedJob(FALSE, new_job_id, Jobs').selected_job_id
          /\ st_message' = ShowSelectedJob(FALSE, new_job_id, Jobs').st_message
  /\ UNCHANGED screening

\* the Cancel button of the form, then the rerun
Cancel ==
  /\ pc = "ui"
  /\ creating_new_job
  /\ creating_new_job' = FALSE
  /\ selected_job_id' =
       ShowSelectedJob(FALSE, selected_job_id, Jobs).selected_job_id
  /\ st_message' = ShowSelectedJob(FALSE, selected_job_id, Jobs).st_message
  /\ UNCHANGED <<pc, Jobs, new_job_id, new_job_title, new_job_desc,
                 is_duplicate, screening>>

\* the Update Job button of the selected job, then the rerun
UpdateJob ==
  /\ pc = "ui"
  /\ ~creating_new_job
  /\ selected_job_id \in JobIdsOf(Jobs)
  /\ \E updated_desc \in JobDescriptions \cup {""} :
       Jobs' = {IF r.job_id = selected_job_id
                THEN [r EXCEPT !.job_description = updated_desc]
                ELSE r : r \in Jobs}
  /\ st_message' = ""
  /\ UNCHANGED <<pc, selected_job_id, creating_new_job, new_job_id,
                 new_job_title, new_job_desc, is_duplicate, screening>>

\* a run of the script without a click on a button of the panel
Rerun ==
  /\ pc = "ui"
  /\ selected_job_id' =
       ShowSelectedJob(creating_new_job, selected_job_id, Jobs).selected_job_id
  /\ st_message' =
       ShowSelectedJob(creating_new_job, selected_job_id, Jobs).st_message
  /\ UNCHANGED <<pc, creating_new_job, Jobs, new_job_id, new_job_title,
                 new_job_desc, is_duplicate, screening>>

\* another session of the page commits its INSERT
OtherSessionSaves ==
  /\ pc \in {"ui", "save_job"}
  /\ \E id \in JobIds \ JobIdsOf(Jobs), title \in JobTitles,
        desc \in JobDescriptions :
       Jobs' = Jobs \cup {JobRow(id, title, desc)}
  /\ UNCHANGED <<pc, selected_job_id, creating_new_job, new_job_id,
                 new_job_title, new_job_desc, is_duplicate, st_message,
                 screening>>

\* clean_db.py removes the database file; init_db of the next run creates
\* the tables again, empty (Resumes is empty all along here)
CleanDatabase ==
  /\ pc = "ui"
  /\ Jobs # {}
  /\ Jobs' = {}
  /\ UNCHANGED <<pc, selected_job_id, creating_new_job, new_job_id,
                 new_job_title, new_job_desc, is_duplicate, st_message,
                 screening>>

NextUI ==
  \/ NewJob
  \/ SelectJob
  \/ SaveJobClicked
  \/ SaveJob
  \/ Cancel
  \/ UpdateJob
  \/ Rerun
  \/ OtherSessionSaves
  \/ CleanDatabase

SpecUI == InitUI /\ [][NextUI]_vars

(***************************************************************************)
(* Properties.                                                             *)
(***************************************************************************)
SixFields ==
  {"name", "email", "experience_years", "skills_match_score",
   "education_score", "summary"}

\* C1: whatever the analysis call yields (a failure, text that is not JSON,
\* JSON that is not an object, an object with some of the keys, null or
\* non-string values), analyze_resume raises nothing and returns a record
\* with all six fields.
C1_AnalyzeNeverRaises ==
  /\ raised.in # "analyze_resume"
  /\ pc = "score" => data.k = "dict" /\ \A w \in SixFields : HasKey(data, w)

\* C2: every weighted_score computed in the loop, and every score stored
\* in Resumes, lies in 0..100, whatever integers the reply held.
C2_ScoreInRange ==
  /\ \A k \in 1..Len(Resumes) : Resumes[k].score \in 0..100
  /\ pc = "save" => FInt(weighted_score) \in 0..100

\* C3: every row of Resumes has status Shortlisted if and only if its
\* stored integer score is at least 70, and Rejected otherwise.
C3_StatusIffStoredScore ==
  \A k \in 1..Len(Resumes) :
    /\ Resumes[k].status \in {"Shortlisted", "Rejected"}
    /\ Resumes[k].status = "Shortlisted" <=> Resumes[k].score >= 70

\* rows with the stored scores 70 and 69 on either side of the threshold
C3_Witness ==
  /\ \E k \in 1..Len(Resumes) : Resumes[k].score = 70
  /\ \E k \in 1..Len(Resumes) : Resumes[k].score = 69

\* analyze_resume is past its analysis call
Analysing == pc \in {"parse", "defaults", "pass2", "score", "save"}

\* C4: per resume there is exactly one analysis call, then at most one
\* summary call: never more than two calls, a failed call is not issued
\* again, and the summary call never comes first.
C4_AtMostTwoCalls ==
  /\ Len(llm_calls) <= 2
  /\ Analysing => Len(llm_calls) >= 1
  /\ \A k \in 1..Len(llm_calls) :
       llm_calls[k].purpose = (IF k = 1 THEN "analysis" ELSE "summary")

\* a failed analysis call followed by the summary call
C4_Witness ==
  /\ pc = "score"
  /\ Len(llm_calls) = 2
  /\ ~llm_calls[1].ok

AllWhitespace(pages) == \A k \in 1..Len(pages) : pages[k] \in Whitespace

\* C5: a document whose text is only whitespace makes the extractor return
\* the error value; for that resume the loop issues no call and inserts no
\* row, and goes on to the next file.
C5_EmptyTextSkipped ==
  /\ [][(pc = "extract" /\ AllWhitespace(uploaded_files[i]))
          => text' = NoTextError]_vars
  /\ [][(pc = "check" /\ text = NoTextError)
          => /\ llm_calls = <<>> /\ llm_calls' = <<>>
             /\ Resumes' = Resumes
             /\ raised' = raised
             /\ i' = i + 1
             /\ pc' = (IF i < Len(uploaded_files) THEN "extract" ELSE "finish")]_vars

\* the second file is extracted after the first, empty one was skipped
C5_Witness ==
  /\ AllWhitespace(uploaded_files[1])
  /\ processed = <<"skipped">>
  /\ i = 2
  /\ pc = "check"
  /\ Resumes = <<>>

AnalysisFailed == Len(llm_calls) >= 1 /\ ~llm_calls[1].ok

\* C6: when the analysis call fails on either backend nothing is raised:
\* the content is "{}", the five fields take their defaults, the score is
\* 40 and the status Rejected, and the row that the insert commits holds
\* that score and status.
C6_FailedCallGivesDefaults ==
  /\ [](AnalysisFailed =>
          /\ raised = NoException
          /\ pc = "parse" => content = <<"{", "}">>
          /\ pc \in {"pass2", "score", "save"} =>
               /\ Get(data, "name") = VStr(<<"Unknown">>)
               /\ Get(data, "email") = VStr(<<"N/A">>)
               /\ Get(data, "experience_years") = VInt(0)
               /\ Get(data, "skills_match_score") = VInt(50)
               /\ Get(data, "education_score") = VInt(50)
          /\ pc = "save" =>
               /\ weighted_score = [neg |-> FALSE, i |-> 40, f |-> <<0, 0, 0, 0>>]
               /\ status = "Rejected")
  /\ [][(pc = "save" /\ AnalysisFailed /\ Resumes' # Resumes)
          => Resumes' = Append(Resumes,
                               [job_id |-> selected_job_id,
                                name |-> VStr(<<"Unknown">>),
                                score |-> 40,
                                summary |-> Get(data, "summary"),
                                status |-> "Rejected"])]_vars

\* the score of a resume whose analysis call failed on the hosted backend
C6_Witness ==
  /\ pc = "save"
  /\ AnalysisFailed
  /\ llm_calls[1].backend = "groq"
  /\ FInt(weighted_score) = 40

\* a source holds a credential
HoldsValue(v) == v \notin {"FileNotFoundError", "None", ""}

\* C7: the environment is looked up first and the secrets second, and the
\* first value found is the key; the hosted backend is used exactly when
\* a credential was found, and without one the local backend is used and
\* nothing fails.
C7_EnvironmentFirst ==
  pc = "analyze" =>
    /\ HoldsValue(os_environ) => api_key = os_environ
    /\ (~HoldsValue(os_environ) /\ HoldsValue(st_secrets)) => api_key = st_secrets
    /\ client = "Groq" <=> (HoldsValue(os_environ) \/ HoldsValue(st_secrets))
    /\ raised = NoException

\* C8: a reply that wraps the text J of a JSON object in a json fence, with
\* any prose before and after, parses to what J alone parses to.
C8_FencedSameAsUnfenced ==
  \A J \in JsonObjects, pre \in ProseBefore, post \in ProseAfter :
    (pc = "defaults" /\ response = JsonFenced(pre, J, post))
      => data = ParseJson(FenceCleanup(J))

\* C9: a reply made of a JSON object followed by prose, braces in the prose
\* included, parses to that object.
C9_TrailingProseRecovered ==
  \A J \in JsonObjects, t \in TrailingProse :
    (pc = "defaults" /\ response = J \o t) => data = JsonLoads(J).v

\* all six fields present and valid, the summary of at least 100 characters
WellFormed(d) ==
  /\ d.k = "dict"
  /\ \A w \in SixFields : HasKey(d, w)
  /\ Get(d, "name").k = "str"
  /\ Get(d, "email").k = "str"
  /\ Get(d, "experience_years").k = "int" /\ Get(d, "experience_years").n >= 0
  /\ Get(d, "skills_match_score").k = "int" /\ Get(d, "skills_match_score").n \in 0..100
  /\ Get(d, "education_score").k = "int" /\ Get(d, "education_score").n \in 0..100
  /\ Get(d, "summary").k = "str"
  /\ StrLen(Get(d, "summary").s) >= 100
  /\ Get(d, "summary") # Placeholder

\* C10: on a parsed reply with all six fields valid and a summary of at
\* least 100 characters, the defaults and the second pass change no field
\* and issue no call, and the same holds when they are applied to their
\* own result.
C10_ReconcileChangesNothing ==
  [][(pc \in {"defaults", "pass2"} /\ WellFormed(data))
       => /\ data' = data
          /\ llm_calls' = llm_calls
          /\ raised' = raised
          /\ EnsureDefaults(data') = data'
          /\ Pass2Test(data') = "no"]_vars

\* analyze_resume has returned a well-formed record after one call
C10_Witness ==
  /\ pc = "score"
  /\ WellFormed(data)
  /\ Len(llm_calls) = 1
  /\ StrLen(Get(data, "summary").s) = 100

\* the summary of a record calls for the second pass
NeedsRepair(d) ==
  LET summary == Get(d, "summary")
  IN  \/ summary = VStr(<<"Unable to generate summary">>)
      \/ summary.k = "str" /\ StrLen(summary.s) < 100

\* C11: the summary call is issued if and only if, after the defaults, the
\* summary is the placeholder or has fewer than 100 characters; whenever
\* the parsed response has no summary key, the summary is set to the
\* placeholder and the summary call is then attempted.
C11_RepairIffPlaceholderOrShort ==
  [][/\ (pc = "pass2" /\ pc' # "pass2") =>
          (Len(llm_calls') = Len(llm_calls) + 1 <=> NeedsRepair(data))
     /\ (pc = "pass2" /\ Len(llm_calls') = Len(llm_calls) + 1) =>
          llm_calls'[Len(llm_calls')].purpose = "summary"
     /\ (pc = "defaults" /\ pc' # "defaults" /\ ~HasKey(data, "summary")) =>
          /\ pc' = "pass2"
          /\ Get(data', "summary") = VStr(<<"Unable to generate summary">>)
          /\ NeedsRepair(data')]_vars

\* a text with a character that strip() keeps
NonBlank(s) == \E k \in 1..Len(s) : s[k] \notin {" ", "\n"}

\* C12: the second pass overwrites the summary only when its call succeeds
\* and the trimmed reply is not empty, and then with the trimmed reply; when
\* the call fails or the reply is empty or whitespace the record is kept as
\* it was; the other five fields are never changed by the second pass.
C12_RepairOnlyOverwritesSummary ==
  [][(pc = "pass2" /\ pc' = "score") =>
       LET issued == Len(llm_calls') = Len(llm_calls) + 1
           useful == /\ issued
                     /\ llm_calls'[Len(llm_calls')].ok
                     /\ NonBlank(summary_response')
       IN  /\ \A w \in {"name", "email", "skills_match_score",
                         "experience_years", "education_score"} :
                 HasKey(data', w) /\ Get(data', w) = Get(data, w)
           /\ DOMAIN data'.o = DOMAIN data.o
           /\ useful => /\ Get(data', "summary").k = "str"
                        /\ NonBlank(Get(data', "summary").s)
                        /\ Get(data', "summary").s = Strip(summary_response')
           /\ ~useful => data' = data]_vars

\* a whitespace-only reply of the summary call left the placeholder in place
C12_Witness ==
  /\ pc = "score"
  /\ Len(llm_calls) = 2
  /\ llm_calls[2].ok
  /\ summary_response = <<" ", "\n">>
  /\ Get(data, "summary") = VStr(<<"Unable to generate summary">>)

\* the three sub-scores of a record
Sub(d) ==
  [s |-> Get(d, "skills_match_score").n, e |-> Get(d, "experience_years").n,
   d |-> Get(d, "education_score").n]

HasSubScores(d) == d.k = "dict" /\ \A w \in ScoreKeys : HasKey(d, w)

\* C13: for integer sub-scores in 0..100 and experience_years >= 0 the
\* score of the inserted row is the integer part of
\* (7*skills + 2*min(10*years, 100) + education) / 10; skills 90, years 3,
\* education 80 give 77 and Shortlisted.
C13_StoredScoreIsFloor ==
  [][(/\ pc = "save"
      /\ Len(Resumes') = Len(Resumes) + 1
      /\ HasSubScores(data)
      /\ Sub(data).s \in 0..100 /\ Sub(data).d \in 0..100 /\ Sub(data).e >= 0)
     => LET row == Resumes'[Len(Resumes')]
            e10 == IF 10 * Sub(data).e < 100 THEN 10 * Sub(data).e ELSE 100
        IN  /\ row.score = (7 * Sub(data).s + 2 * e10 + Sub(data).d) \div 10
            /\ Sub(data) = [s |-> 90, e |-> 3, d |-> 80] =>
                 row.score = 77 /\ row.status = "Shortlisted"]_vars

FIsZero(x) == x.i = 0 /\ x.f = <<0, 0, 0, 0>>

\* a <= b on floats
FLessEq(a, b) ==
  IF a.neg /\ b.neg THEN ~LessMag(a, b)
  ELSE IF a.neg THEN TRUE
  ELSE IF b.neg THEN FIsZero(a) /\ FIsZero(b)
  ELSE ~LessMag(b, a)

\* the record d with the int n at key w
WithInt(d, w, n) == VDict((Key(w) :> VInt(n)) @@ d.o)

\* C14: the weighted score does not decrease when skills_match_score,
\* experience_years or education_score alone is raised, and with
\* experience_years >= 10 it is the weighted score of experience_years 10.
C14_ScoreMonotonic ==
  (pc = "save" /\ HasSubScores(data)) =>
    /\ weighted_score = CalculateScore(data).w
    /\ \A n \in SkillsScores :
         n >= Sub(data).s =>
           FLessEq(weighted_score,
                   CalculateScore(WithInt(data, "skills_match_score", n)).w)
    /\ \A n \in ExperienceYears :
         n >= Sub(data).e =>
           FLessEq(weighted_score,
                   CalculateScore(WithInt(data, "experience_years", n)).w)
    /\ \A n \in EducationScores :
         n >= Sub(data).d =>
           FLessEq(weighted_score,
                   CalculateScore(WithInt(data, "education_score", n)).w)
    /\ Sub(data).e >= 10 =>
         weighted_score = CalculateScore(WithInt(data, "experience_years", 10)).w

\* 15 years of experience scored as 10 years: 63 + 20 + 8
C14_Witness ==
  /\ pc = "save"
  /\ HasSubScores(data)
  /\ Sub(data) = [s |-> 90, e |-> 15, d |-> 80]
  /\ FInt(weighted_score) = 91

\* C15: when skills_match_score, experience_years or education_score is
\* missing from the record that is scored, the calculation does not raise:
\* weighted_score is 0, the status is Rejected, and the loop goes on to the
\* insert, which stores 0 and Rejected.
C15_MissingFieldScoresZero ==
  [][/\ (pc = "score" /\ data.k = "dict" /\ ~HasSubScores(data)) =>
          /\ pc' = "save"
          /\ raised' = NoException
          /\ weighted_score' = [neg |-> FALSE, i |-> 0, f |-> <<0, 0, 0, 0>>]
          /\ status' = "Rejected"
     /\ (pc = "save" /\ ~HasSubScores(data)
           /\ Len(Resumes') = Len(Resumes) + 1) =>
          /\ Resumes'[Len(Resumes')].score = 0
          /\ Resumes'[Len(Resumes')].status = "Rejected"]_vars

\* a record without experience_years scored 0 although its skills are 90
C15_Witness ==
  /\ pc = "save"
  /\ raised = NoException
  /\ ~HasKey(data, "experience_years")
  /\ HasKey(data, "skills_match_score")
  /\ Get(data, "skills_match_score") = VInt(90)
  /\ weighted_score = FZero
  /\ status = "Rejected"

\* C16: on the hosted and on the local backend the analysis call is made
\* with temperature 0.2 and a ceiling of 1024 tokens, the summary call with
\* temperature 0.4 and a ceiling of 512 tokens.
C16_SamplingParameters ==
  \A k \in 1..Len(llm_calls) :
    /\ llm_calls[k].backend \in {"groq", "ollama"}
    /\ llm_calls[k].purpose = "analysis" =>
         llm_calls[k].temperature10 = 2 /\ llm_calls[k].max_tokens = 1024
    /\ llm_calls[k].purpose = "summary" =>
         llm_calls[k].temperature10 = 4 /\ llm_calls[k].max_tokens = 512

\* texts of JSON objects that hold no fence
Unfenced == {J \in JsonObjects : ~Contains(J, <<"[fence]">>)}

\* C17: for a reply with a fenced block that has no json tag, the text
\* parsed is the content of the first block, so that an object wrapped
\* in a pair of plain fences is recovered, whatever prose is around it.
C17_PlainFenceContentParsed ==
  \A J \in Unfenced, pre \in ProseBefore, post \in ProseAfter :
    (pc = "defaults" /\ response = PlainFenced(pre, J, post))
      => content = J /\ data = JsonLoads(J).v

\* C18: when json.loads of the cleaned text fails, the result is that of
\* the brace pattern searched in the reply as it was returned, so that an
\* object outside the first fenced block is recovered.
C18_FallbackOnOriginalText ==
  /\ (pc = "defaults" /\ ~JsonLoads(content).ok) =>
       LET m == RegexSearch(response)
       IN  data = IF m.found /\ JsonLoads(m.group).ok
                  THEN JsonLoads(m.group).v
                  ELSE VDict(<<>>)
  /\ \A J \in Unfenced :
       (pc = "defaults"
          /\ response = JsonFenced(<<>>, <<"Sure">>, <<" ">> \o J))
         => data = JsonLoads(J).v

\* the file at hand is finished by this step
FileDone == i' = i + 1

C20_OnlyEmptyTextSkipped ==
  [][(pc = "check" /\ pc' # "check" /\ ~AllWhitespace(uploaded_files[i])) =>
       /\ pc' = "setup"
       /\ i' = i
       /\ processed' = processed]_vars

\* C21: whatever buttons of the job panel are clicked, creating_new_job is
\* never True while selected_job_id is not None; a Save Job whose INSERT
\* commits leaves selected_job_id at the id of the new job with
\* creating_new_job False; a Save Job with an id that is already in Jobs
\* leaves Jobs as it was.
C21_CreatingExcludesSelection ==
  [][/\ ~(creating_new_job /\ selected_job_id # "None")
     /\ ~(creating_new_job' /\ selected_job_id' # "None")
     /\ (pc = "save_job" /\ pc' = "ui") =>
          LET saved == [job_id |-> new_job_id, job_title |-> new_job_title,
                        job_description |-> new_job_desc]
          IN  /\ new_job_id \in {r.job_id : r \in Jobs} => Jobs' = Jobs
              /\ Jobs' # Jobs =>
                   /\ Jobs' = Jobs \cup {saved}
                   /\ selected_job_id' = new_job_id
                   /\ new_job_id # "None"
                   /\ creating_new_job' = FALSE
              /\ (/\ new_job_id # "" /\ new_job_title # ""
                  /\ new_job_desc # ""
                  /\ new_job_id \notin {r.job_id : r \in Jobs})
                 => Jobs' # Jobs
     /\ \A r1 \in Jobs', r2 \in Jobs' : r1.job_id = r2.job_id => r1 = r2]_vars

\* the id typed was free when the form was read and taken when the INSERT
\* ran: the form stays open and Jobs holds the other session's row only
C21_Witness ==
  /\ pc = "ui"
  /\ creating_new_job
  /\ selected_job_id = "None"
  /\ st_message = "already exists."
  /\ Cardinality(Jobs) = 1

====
